---- MODULE Spec2Model ----
(***************************************************************************)
(* Model of src/lab_6_pipeline/pipeline.py: the CONLL-U pipeline.          *)
(*                                                                         *)
(* Text is modelled at character level: a Python str is a sequence of      *)
(* one-character strings, so that str.isalnum, str.isdigit and the regular *)
(* expressions \w+ and [а-я]+ are computed, not assumed.  Lowercase Latin  *)
(* letters of the model stand for lowercase Cyrillic letters of the        *)
(* program's data (the class [а-я]); uppercase Latin letters and digits    *)
(* are word characters outside that class.                                 *)
(***************************************************************************)
EXTENDS Integers, Sequences, FiniteSets, TLC

VARIABLES
    pipeline,          \* "base" | "advanced": the class whose run() executes
    storage,           \* CorpusManager._storage: the articles, in iteration order
    pc,                \* position of control inside run() / _process()
    art,               \* index into storage of the article run() is at
    result,            \* _process: the analyzer's flat entry list
    ind,               \* _process: 0-based index of the sentence being built
    i,                 \* _process: 1-based index of the next word of the sentence
    number_of_words,   \* _process: the cursor into result
    tokens,            \* _process: tokens of the sentence being built
    conllu_sentences,  \* _process: sentences built so far
    error,             \* the exception that left run(), or NoExc
    taken,             \* history: the indices of result read at line 280/352
    conv,              \* the last TagConverter call: its input and outputs
    token,             \* a ConlluToken driven through its public methods
    rendered           \* the last get_conllu_text call: its token and its fields

vars ==
    <<pipeline, storage, pc, art, result, ind, i, number_of_words, tokens,
      conllu_sentences, error, taken, conv, token, rendered>>

(***************************************************************************)
(* Bounds of the model.                                                    *)
(***************************************************************************)
MaxTagLen == 5
MaxStream == 3
MaxSentences == 2
MaxWords == 2
MaxDocs == 2
MaxCorpusStream == 2
MaxCorpusWords == 1
MaxPosition == 2

(***************************************************************************)
(* Python values.                                                          *)
(***************************************************************************)
\* Python's None, where a str is expected (no str of the model equals it).
None == "<None>"
\* No exception.
NoExc == "<no exception>"

Ok(v) == [exc |-> NoExc, val |-> v]
Raised(e) == [exc |-> e, val |-> None]

(***************************************************************************)
(* Character classes.                                                      *)
(***************************************************************************)
\* [а-я]: lowercase Cyrillic letters.
CyrLower == {"e", "d", "m", "k", "o", "t"}
\* str.isdigit characters.
DigitChars == {"4", "2"}
\* str.isalnum characters.
AlnumChars == CyrLower \cup {"S", "V", "Q"} \cup DigitChars
\* \w: alphanumerics and the underscore.
WordChars == AlnumChars \cup {"_"}

\* str.isalnum(): non-empty and every character alphanumeric.
isalnum(s) == Len(s) > 0 /\ \A k \in 1..Len(s) : s[k] \in AlnumChars
\* str.isdigit(): non-empty and every character a digit.
isdigit(s) == Len(s) > 0 /\ \A k \in 1..Len(s) : s[k] \in DigitChars

\* Length of the maximal run of characters of class C that s starts with.
RunLen(C, s) ==
    CHOOSE n \in 0..Len(s) :
        /\ \A k \in 1..n : s[k] \in C
        /\ n = Len(s) \/ s[n + 1] \notin C

\* re.findall(r'[C]+', s): the maximal runs of class C, left to right.
RECURSIVE findall(_, _)
findall(C, s) ==
    IF s = <<>> THEN <<>>
    ELSE IF s[1] \notin C THEN findall(C, Tail(s))
    ELSE LET n == RunLen(C, s)
         IN  <<SubSeq(s, 1, n)>> \o findall(C, SubSeq(s, n + 1, Len(s)))

\* re.match(r'[C]+', s): the run s starts with, or no match (<<>>).
match(C, s) == SubSeq(s, 1, RunLen(C, s))

\* sep.join(parts)
RECURSIVE join(_, _)
join(sep, parts) ==
    IF parts = <<>> THEN ""
    ELSE IF Len(parts) = 1 THEN parts[1]
    ELSE parts[1] \o sep \o join(sep, Tail(parts))

(***************************************************************************)
(* TagConverter: category names and mapping tables.                        *)
(***************************************************************************)
pos == "POS"
case == "Case"
number == "Number"
gender == "Gender"
animacy == "Animacy"
tense == "Tense"

\* Python's order of the category names as str (sorted() compares the keys).
Alphabetical == <<animacy, case, gender, number, tense>>
Rank(k) == CHOOSE r \in 1..Len(Alphabetical) : Alphabetical[r] = k

\* The Mystem table: a marker may be registered under several categories
\* ("d" under Number and Gender, "m" under Gender and Animacy, "e" under
\* Case and Tense).
MystemMapping ==
    [c \in {pos, case, number, gender, animacy, tense} |->
        CASE c = pos     -> (<<"S">> :> "NOUN" @@ <<"V">> :> "VERB")
          [] c = case    -> (<<"e">> :> "Nom")
          [] c = number  -> (<<"d">> :> "Sing" @@ <<"e", "d">> :> "Plur")
          [] c = gender  -> (<<"d">> :> "Masc" @@ <<"m">> :> "Fem")
          [] c = animacy -> (<<"m">> :> "Anim")
          [] c = tense   -> (<<"e">> :> "Past")]

\* The OpenCorpora table.
OpenCorporaMapping ==
    [c \in {pos, case, number, gender, animacy} |->
        CASE c = pos     -> ("NOUN" :> "NOUN" @@ "VERB" :> "VERB")
          [] c = case    -> ("nomn" :> "Nom" @@ "gent" :> "Gen")
          [] c = number  -> ("sing" :> "Sing" @@ "plur" :> "Plur")
          [] c = gender  -> ("masc" :> "Masc")
          [] c = animacy -> ("anim" :> "Anim" @@ "inan" :> "Inan")]

\* A dict is the sequence of its (key, value) items in insertion order.
Keys(d) == {d[k][1] : k \in 1..Len(d)}

\* sorted(d.items()): by key (keys are unique), by insertion.
RECURSIVE sorted(_)
Insert(item, s) ==
    LET before == SelectSeq(s, LAMBDA x : Rank(x[1]) <= Rank(item[1]))
        after == SelectSeq(s, LAMBDA x : Rank(x[1]) > Rank(item[1]))
    IN  before \o <<item>> \o after
sorted(d) == IF d = <<>> THEN <<>> ELSE Insert(d[Len(d)], sorted(SubSeq(d, 1, Len(d) - 1)))

\* '|'.join(f'{k}={v}' for k, v in items)
FormatFeatures(items) ==
    join("|", [k \in 1..Len(items) |-> items[k][1] \o "=" \o items[k][2]])

(***************************************************************************)
(* MystemTagConverter                                                      *)
(***************************************************************************)
\* The categories in the order the inner loop visits them (line 212).
CategoryOrder == <<case, number, gender, animacy, tense>>

\* AssignTag without the test "category not in ud_tags".
RECURSIVE AssignTagNoFreeTest(_, _, _)
AssignTagNoFreeTest(ud_tags, tag, c) ==
    IF c > Len(CategoryOrder) THEN ud_tags
    ELSE LET category == CategoryOrder[c]
         IN  IF tag \in DOMAIN MystemMapping[category]
             THEN Append(ud_tags, <<category, MystemMapping[category][tag]>>)
             ELSE AssignTagNoFreeTest(ud_tags, tag, c + 1)

\* Lines 212-215 for one marker: the first category, in CategoryOrder from
\* position c on, that registers the marker and has no value yet gets it.
RECURSIVE AssignTag(_, _, _)
AssignTag(ud_tags, tag, c) ==
    IF c > Len(CategoryOrder) THEN ud_tags
    ELSE LET category == CategoryOrder[c]
         IN  IF tag \in DOMAIN MystemMapping[category] /\ category \notin Keys(ud_tags)
             THEN Append(ud_tags, <<category, MystemMapping[category][tag]>>)
             ELSE AssignTag(ud_tags, tag, c + 1)

\* Lines 209-215: the dict after the loop over the extracted markers.
RECURSIVE MystemUdTags(_)
MystemUdTags(extracted_tags) ==
    IF extracted_tags = <<>> THEN <<>>
    ELSE LET n == Len(extracted_tags)
         IN  AssignTag(MystemUdTags(SubSeq(extracted_tags, 1, n - 1)), extracted_tags[n], 1)

\* MystemItems without sorted().
MystemItemsUnsorted(ud_tags) == ud_tags

\* The items of the dict in the order line 216 renders them.
MystemItems(ud_tags) == sorted(ud_tags)

\* MystemTagConverter.convert_morphological_tags
Mystem_convert_morphological_tags(tags) ==
    FormatFeatures(MystemItems(MystemUdTags(findall(CyrLower, tags))))

\* MystemTagConverter.convert_pos: re.match(...)[0] raises TypeError on no
\* match, the table lookup KeyError on an unregistered tag.
Mystem_convert_pos(tags) ==
    LET m == match(WordChars, tags)
    IN  IF m = <<>> THEN Raised("TypeError")
        ELSE IF m \notin DOMAIN MystemMapping[pos] THEN Raised("KeyError")
        ELSE Ok(MystemMapping[pos][m])

(***************************************************************************)
(* OpenCorporaTagConverter                                                 *)
(***************************************************************************)
\* OpenCorporaTagConverter.convert_pos: None when the tag has no POS.
OpenCorpora_convert_pos(tags) ==
    IF tags.POS # None
    THEN IF tags.POS \in DOMAIN OpenCorporaMapping[pos]
         THEN Ok(OpenCorporaMapping[pos][tags.POS])
         ELSE Raised("KeyError")
    ELSE Ok(None)

\* Line 244-245: the (category, field value) pairs in the order of the list.
OpenCorporaFields(tags) ==
    << <<animacy, tags.animacy>>, <<case, tags.case>>,
       <<gender, tags.gender>>, <<number, tags.number>> >>

\* Lines 247-250: the dict after the loop, or the KeyError of the lookup.
RECURSIVE OpenCorporaUdTags(_)
OpenCorporaUdTags(lst) ==
    IF lst = <<>> THEN Ok(<<>>)
    ELSE LET n == Len(lst)
             k == lst[n][1]
             v == lst[n][2]
             sofar == OpenCorporaUdTags(SubSeq(lst, 1, n - 1))
         IN  IF sofar.exc # NoExc THEN sofar
             ELSE IF v = None THEN sofar
             ELSE IF v \notin DOMAIN OpenCorporaMapping[k] THEN Raised("KeyError")
             ELSE Ok(Append(sofar.val, <<k, OpenCorporaMapping[k][v]>>))

\* OpenCorporaTagConverter.convert_morphological_tags
OpenCorpora_convert_morphological_tags(tags) ==
    LET d == OpenCorporaUdTags(OpenCorporaFields(tags))
    IN  IF d.exc # NoExc THEN d ELSE Ok(FormatFeatures(d.val))

(***************************************************************************)
(* MorphologicalTokenDTO, ConlluToken, ConlluSentence                      *)
(***************************************************************************)
\* MorphologicalTokenDTO.__init__ (the defaults are the empty str).
MorphologicalTokenDTO(lemma, pos_, tags) == [lemma |-> lemma, pos |-> pos_, tags |-> tags]
DefaultDTO == MorphologicalTokenDTO(<<>>, "", "")

\* ConlluToken.__init__; _position 0 stands for None (set_position is only
\* ever given positions >= 1).
ConlluToken(text) ==
    [_text |-> text, _morphological_parameters |-> DefaultDTO, _position |-> 0]

\* ConlluToken.set_morphological_parameters
set_morphological_parameters(tok, parameters) ==
    [tok EXCEPT !._morphological_parameters = parameters]

\* ConlluToken.set_position
set_position(tok, position) == [tok EXCEPT !._position = position]

\* str(self._position)
str_position(p) == IF p = 0 THEN "None" ELSE ToString(p)

\* The part-of-speech field of the record (lines 142-144).
PosField(tok) ==
    IF tok._morphological_parameters.pos = None THEN "X"
    ELSE tok._morphological_parameters.pos

\* ConlluToken.get_conllu_text: the ten fields that '\t'.join receives.
get_conllu_text(tok, include_morphological_tags) ==
    LET feats ==
            IF include_morphological_tags
            THEN IF tok._morphological_parameters.tags # ""
                 THEN tok._morphological_parameters.tags ELSE "_"
            ELSE "_"
    IN  <<str_position(tok._position), tok._text,
          tok._morphological_parameters.lemma, PosField(tok), "_", feats,
          "0", "root", "_", "_">>

\* ConlluSentence.__init__ (the sentence text is not modelled: _process
\* reads only the number of words of a sentence).
ConlluSentence(position, toks) == [_position |-> position, _tokens |-> toks]

(***************************************************************************)
(* The analyzers (external): the entries Mystem.analyze may return and     *)
(* what pymorphy2's parse(text)[0] returns for their texts.                *)
(***************************************************************************)
Entry(text, has_analysis, analysis) ==
    [text |-> text, has_analysis |-> has_analysis, analysis |-> analysis]
Candidate(lex, gr) == [lex |-> lex, gr |-> gr]

EntryNoun ==
    Entry(<<"k", "o", "t">>, TRUE,
          <<Candidate(<<"k", "o", "t">>, <<"S", ",", "m", "=", "e", ",", "d">>),
            Candidate(<<"k", "o", "d">>, <<"V", "=", "e">>)>>)
EntryNounNoPos ==
    Entry(<<"t", "o", "k">>, TRUE, <<Candidate(<<"t", "o", "k">>, <<"S", ",", "d">>)>>)
EntryVerb ==
    Entry(<<"e", "d", "e", "t">>, TRUE,
          <<Candidate(<<"e", "d">>, <<"V", "=", "e", ",", "e", "d">>)>>)
EntryUnmapped == Entry(<<"Q">>, TRUE, <<Candidate(<<"Q">>, <<"Q">>)>>)
EntryUnknown == Entry(<<"S", "4">>, TRUE, <<>>)
EntryDigits == Entry(<<"4", "2">>, FALSE, <<>>)
EntrySpace == Entry(<<" ">>, FALSE, <<>>)

\* The entries of the documents the base pipeline is run on.
Entries ==
    {EntryNoun, EntryVerb, EntryUnmapped, EntryUnknown, EntryDigits, EntrySpace}

\* The entries of the documents the advanced pipeline is run on.
AdvancedEntries ==
    {EntryNoun, EntryNounNoPos, EntryVerb, EntryUnmapped, EntryDigits, EntrySpace}

\* The entries of the documents of a multi-document corpus.
CorpusEntries == {EntryVerb, EntryUnmapped, EntrySpace}

OpencorporaTag(POS, animacy_, case_, gender_, number_) ==
    [POS |-> POS, animacy |-> animacy_, case |-> case_, gender |-> gender_,
     number |-> number_]

\* self._backup_analyzer.parse(text)[0]
parse0(text) ==
    CASE text = <<"k", "o", "t">> ->
            [normal_form |-> <<"k", "o">>,
             tag |-> OpencorporaTag("NOUN", "anim", "nomn", "masc", "sing")]
      [] text = <<"t", "o", "k">> ->
            [normal_form |-> <<"t", "o">>,
             tag |-> OpencorporaTag(None, None, "gent", None, "plur")]
      [] OTHER ->
            [normal_form |-> text, tag |-> OpencorporaTag(None, None, None, None, None)]

(***************************************************************************)
(* _process: the body of the loop over the words.                          *)
(***************************************************************************)
\* getitem that reads the last element past the end of a non-empty list.
getitemClamped(lst, idx) ==
    IF Len(lst) = 0 THEN Raised("IndexError")
    ELSE Ok(lst[IF idx < Len(lst) THEN idx + 1 ELSE Len(lst)])

\* lst[idx] for idx >= 0: IndexError past the end of the list.
getitem(lst, idx) == IF idx < Len(lst) THEN Ok(lst[idx + 1]) ELSE Raised("IndexError")

\* Lines 278-279 (350-351): the cursor after the skip of at most one entry.
SkipNonAlnum(result_, cursor) ==
    LET e == getitem(result_, cursor)
    IN  IF e.exc # NoExc THEN e
        ELSE IF ~isalnum(e.val.text) THEN Ok(cursor + 1) ELSE Ok(cursor)

\* BaseMorphology that tests isalnum where the code tests isdigit.
BaseMorphologyNoDigits(analyzed_content) ==
    IF analyzed_content.has_analysis /\ analyzed_content.analysis # <<>>
    THEN LET lemma == analyzed_content.analysis[1].lex
             morph_tags == analyzed_content.analysis[1].gr
             p == Mystem_convert_pos(morph_tags)
         IN  IF p.exc # NoExc THEN p
             ELSE Ok(MorphologicalTokenDTO(lemma, p.val,
                                           Mystem_convert_morphological_tags(morph_tags)))
    ELSE IF isalnum(analyzed_content.text)
    THEN Ok(MorphologicalTokenDTO(analyzed_content.text, "NUM", ""))
    ELSE Ok(MorphologicalTokenDTO(analyzed_content.text, "X", ""))

\* Lines 282-294: lemma, pos and tags of the base pipeline for an entry.
BaseMorphology(analyzed_content) ==
    IF analyzed_content.has_analysis /\ analyzed_content.analysis # <<>>
    THEN LET lemma == analyzed_content.analysis[1].lex
             morph_tags == analyzed_content.analysis[1].gr
             p == Mystem_convert_pos(morph_tags)
         IN  IF p.exc # NoExc THEN p
             ELSE Ok(MorphologicalTokenDTO(lemma, p.val,
                                           Mystem_convert_morphological_tags(morph_tags)))
    ELSE IF isdigit(analyzed_content.text)
    THEN Ok(MorphologicalTokenDTO(analyzed_content.text, "NUM", ""))
    ELSE Ok(MorphologicalTokenDTO(analyzed_content.text, "X", ""))

\* BackupMorphology that keeps the primary analyzer's lemma.
BackupMorphologyPrimaryLemma(analyzed_content) ==
    LET lemma == analyzed_content.analysis[1].lex
        all_tags == parse0(analyzed_content.text).tag
        p == OpenCorpora_convert_pos(all_tags)
        t == OpenCorpora_convert_morphological_tags(all_tags)
    IN  IF p.exc # NoExc THEN p
        ELSE IF t.exc # NoExc THEN t
        ELSE Ok(MorphologicalTokenDTO(lemma, p.val, t.val))

\* Lines 357-361: the escalation to the backup analyzer.
BackupMorphology(analyzed_content) ==
    LET lemma == parse0(analyzed_content.text).normal_form
        all_tags == parse0(analyzed_content.text).tag
        p == OpenCorpora_convert_pos(all_tags)
        t == OpenCorpora_convert_morphological_tags(all_tags)
    IN  IF p.exc # NoExc THEN p
        ELSE IF t.exc # NoExc THEN t
        ELSE Ok(MorphologicalTokenDTO(lemma, p.val, t.val))

\* Lines 354-372: lemma, pos and tags of the advanced pipeline for an entry.
AdvancedMorphology(analyzed_content) ==
    IF analyzed_content.has_analysis /\ analyzed_content.analysis # <<>>
    THEN LET morph_tags == analyzed_content.analysis[1].gr
             p == Mystem_convert_pos(morph_tags)
         IN  IF p.exc # NoExc THEN p
             ELSE IF p.val = "NOUN" THEN BackupMorphology(analyzed_content)
             ELSE Ok(MorphologicalTokenDTO(analyzed_content.analysis[1].lex, p.val,
                                           Mystem_convert_morphological_tags(morph_tags)))
    ELSE IF isdigit(analyzed_content.text)
    THEN Ok(MorphologicalTokenDTO(analyzed_content.text, "NUM", ""))
    ELSE Ok(MorphologicalTokenDTO(analyzed_content.text, "X", ""))

Morphology(analyzed_content) ==
    IF pipeline = "base" THEN BaseMorphology(analyzed_content)
    ELSE AdvancedMorphology(analyzed_content)

\* Lines 295-297: the token of a word.
WordToken(analyzed_content, dto, position) ==
    set_position(set_morphological_parameters(ConlluToken(analyzed_content.text), dto),
                 position)

\* TerminalPosition without the + 1.
TerminalPositionLast(n_words) == n_words

\* Line 303: the position of the terminal token.
TerminalPosition(n_words) == n_words + 1

\* Lines 301-303: the synthetic terminal token (tags defaults to '').
TerminalToken(n_words) ==
    set_position(
        set_morphological_parameters(ConlluToken(<<".">>),
                                     MorphologicalTokenDTO(<<".">>, "PUNCT", "")),
        TerminalPosition(n_words))

\* Line 273 (344): the cursor when _process starts.
InitialCursor == 0

\* SentenceCursor that starts every sentence at the first entry.
SentenceCursorReset(cursor) == 0

\* Lines 274-276: the cursor a sentence starts with is the one the previous
\* sentence ended with (no assignment between the sentences).
SentenceCursor(cursor) == cursor

\* Line 300 (377): the cursor after an entry was taken.
AdvanceCursor(cursor) == cursor + 1

(***************************************************************************)
(* run() and _process() as a state machine.                                *)
(***************************************************************************)
\* An article of the corpus: what the analyzer returns for its text, the
\* number of words of each of its sentences, and what run() stores in it
\* and writes for it.
Article(stream, sentences) ==
    [stream |-> stream, sentences |-> sentences, conllu_sentences |-> <<>>,
     files |-> {}]

\* Lines 320-322 / 397-398: the files run() writes for an article.
WrittenFiles ==
    IF pipeline = "base"
    THEN {"cleaned", "conllu", "morphological_conllu"}
    ELSE {"cleaned", "pymorphy_conllu"}

\* len(words) of the sentence _process is at.
NumWords == storage[art].sentences[ind + 1]

\* Lines 318-319, 271-273: run() takes the next article and _process starts.
StartProcess ==
    /\ pc = "run"
    /\ art < Len(storage)
    /\ art' = art + 1
    /\ result' = storage[art + 1].stream
    /\ conllu_sentences' = <<>>
    /\ number_of_words' = InitialCursor
    /\ ind' = 0
    /\ i' = 1
    /\ tokens' = <<>>
    /\ taken' = <<>>
    /\ pc' = "sentence"
    /\ UNCHANGED <<pipeline, storage, error, conv, token, rendered>>

\* Lines 274-276: the next sentence starts.
StartSentence ==
    /\ pc = "sentence"
    /\ ind < Len(storage[art].sentences)
    /\ tokens' = <<>>
    /\ i' = 1
    /\ number_of_words' = SentenceCursor(number_of_words)
    /\ pc' = "word"
    /\ UNCHANGED <<pipeline, storage, art, result, ind, conllu_sentences, error,
                   taken, conv, token, rendered>>

\* Lines 277-300: one word; an exception leaves _process and run().
ProcessWord ==
    /\ pc = "word"
    /\ i <= NumWords
    /\ LET skipped == SkipNonAlnum(result, number_of_words)
           cursor == IF skipped.exc = NoExc THEN skipped.val ELSE number_of_words
           analyzed_content ==
               IF skipped.exc = NoExc THEN getitem(result, cursor) ELSE skipped
           dto ==
               IF analyzed_content.exc = NoExc THEN Morphology(analyzed_content.val)
               ELSE analyzed_content
       IN  IF dto.exc = NoExc
           THEN /\ tokens' = Append(tokens, WordToken(analyzed_content.val, dto.val, i))
                /\ taken' = Append(taken, cursor)
                /\ number_of_words' = AdvanceCursor(cursor)
                /\ i' = i + 1
                /\ UNCHANGED <<pc, error>>
           ELSE /\ pc' = "raised"
                /\ error' = dto.exc
                /\ number_of_words' = cursor
                /\ taken' = IF analyzed_content.exc = NoExc
                            THEN Append(taken, cursor) ELSE taken
                /\ UNCHANGED <<tokens, i>>
    /\ UNCHANGED <<pipeline, storage, art, result, ind, conllu_sentences, conv,
                   token, rendered>>

\* Lines 301-310: the terminal token, and the sentence joins the list.
EndSentence ==
    /\ pc = "word"
    /\ i > NumWords
    /\ conllu_sentences' =
           Append(conllu_sentences,
                  ConlluSentence(ind, Append(tokens, TerminalToken(NumWords))))
    /\ ind' = ind + 1
    /\ pc' = "sentence"
    /\ UNCHANGED <<pipeline, storage, art, result, i, number_of_words, tokens,
                   error, taken, conv, token, rendered>>

\* Lines 312, 319-322: _process returns, run() stores the sentences in the
\* article and writes its files.
FinishArticle ==
    /\ pc = "sentence"
    /\ ind = Len(storage[art].sentences)
    /\ storage' = [storage EXCEPT ![art].conllu_sentences = conllu_sentences,
                                  ![art].files = WrittenFiles]
    /\ pc' = "run"
    /\ UNCHANGED <<pipeline, art, result, ind, i, number_of_words, tokens,
                   conllu_sentences, error, taken, conv, token, rendered>>

\* Line 318: the loop over the articles ends and run() returns.
RunReturn ==
    /\ pc = "run"
    /\ art = Len(storage)
    /\ pc' = "done"
    /\ UNCHANGED <<pipeline, storage, art, result, ind, i, number_of_words,
                   tokens, conllu_sentences, error, taken, conv, token, rendered>>

\* Sequences over S of length at most n.
SeqUpTo(S, n) == UNION {[1..k -> S] : k \in 0..n}

IdleConverter == [variant |-> "none", returned |-> FALSE]
IdleToken == ConlluToken(<<>>)
NotRendered == [self |-> IdleToken, fields |-> <<>>]

PipelineInit(classes, docs, max_docs) ==
    /\ pipeline \in classes
    /\ storage \in UNION {[1..k -> docs] : k \in 1..max_docs}
    /\ pc = "run"
    /\ art = 0
    /\ result = <<>>
    /\ ind = 0
    /\ i = 1
    /\ number_of_words = 0
    /\ tokens = <<>>
    /\ conllu_sentences = <<>>
    /\ error = NoExc
    /\ taken = <<>>
    /\ conv = IdleConverter
    /\ token = IdleToken
    /\ rendered = NotRendered

\* MorphologicalAnalysisPipeline.run() on a corpus of one article.
Init ==
    PipelineInit({"base"},
                 {Article(s, w) : s \in SeqUpTo(Entries, MaxStream),
                                  w \in SeqUpTo(0..MaxWords, MaxSentences)}, 1)

\* AdvancedMorphologicalAnalysisPipeline.run() on a corpus of one article.
InitAdvanced ==
    PipelineInit({"advanced"},
                 {Article(s, w) : s \in SeqUpTo(AdvancedEntries, MaxStream),
                                  w \in SeqUpTo(0..MaxWords, MaxSentences)}, 1)

\* Either run() on a corpus of several articles.
InitCorpus ==
    PipelineInit({"base", "advanced"},
                 {Article(s, w) : s \in SeqUpTo(CorpusEntries, MaxCorpusStream),
                                  w \in SeqUpTo(0..MaxCorpusWords, 1)}, MaxDocs)

Next ==
    \/ StartProcess
    \/ StartSentence
    \/ ProcessWord
    \/ EndSentence
    \/ FinishArticle
    \/ RunReturn

Spec == Init /\ [][Next]_vars

SpecAdvanced == InitAdvanced /\ [][Next]_vars

SpecCorpus == InitCorpus /\ [][Next]_vars

(***************************************************************************)
(* The tag converters on their own: every raw tag up to a length.          *)
(***************************************************************************)
\* The characters of a raw Mystem tag: a Latin part-of-speech letter, a
\* separator and three lowercase Cyrillic letters.
TagChars == {"S", ",", "e", "d", "m"}
RawTags == SeqUpTo(TagChars, MaxTagLen)

\* The tags pymorphy2 may attach to a candidate ("ADJF" and "loct" are not
\* in the table).
OpencorporaTags ==
    {OpencorporaTag(p, a, c, g, n) :
        p \in {None, "NOUN", "ADJF"}, a \in {None, "anim", "inan"},
        c \in {None, "nomn", "loct"}, g \in {None, "masc"},
        n \in {None, "sing", "plur"}}

PipelineIdle ==
    /\ pipeline = "base"
    /\ storage = <<>>
    /\ pc = "done"
    /\ art = 0
    /\ result = <<>>
    /\ ind = 0
    /\ i = 1
    /\ number_of_words = 0
    /\ tokens = <<>>
    /\ conllu_sentences = <<>>
    /\ error = NoExc
    /\ taken = <<>>

\* A converter call that has not returned yet.
Call(variant, tags) ==
    [variant |-> variant, tags |-> tags, returned |-> FALSE,
     pos |-> Raised("<not called>"), features |-> Raised("<not called>")]

InitConv ==
    /\ PipelineIdle
    /\ \/ conv \in {Call("mystem", tags) : tags \in RawTags}
       \/ conv \in {Call("opencorpora", tags) : tags \in OpencorporaTags}
    /\ token = IdleToken
    /\ rendered = NotRendered

\* MystemTagConverter.convert_pos and convert_morphological_tags on the same
\* raw tag (lines 285-286).
ConvertMystem ==
    /\ conv.variant = "mystem"
    /\ ~conv.returned
    /\ conv' = [conv EXCEPT !.returned = TRUE,
                            !.pos = Mystem_convert_pos(conv.tags),
                            !.features = Ok(Mystem_convert_morphological_tags(conv.tags))]
    /\ UNCHANGED <<pipeline, storage, pc, art, result, ind, i, number_of_words,
                   tokens, conllu_sentences, error, taken, token, rendered>>

\* OpenCorporaTagConverter.convert_pos and convert_morphological_tags on the
\* same tag (lines 360-361).
ConvertOpenCorpora ==
    /\ conv.variant = "opencorpora"
    /\ ~conv.returned
    /\ conv' = [conv EXCEPT !.returned = TRUE,
                            !.pos = OpenCorpora_convert_pos(conv.tags),
                            !.features = OpenCorpora_convert_morphological_tags(conv.tags)]
    /\ UNCHANGED <<pipeline, storage, pc, art, result, ind, i, number_of_words,
                   tokens, conllu_sentences, error, taken, token, rendered>>

NextConv ==
    \/ ConvertMystem
    \/ ConvertOpenCorpora

SpecConv == InitConv /\ [][NextConv]_vars

(***************************************************************************)
(* A ConlluToken on its own, driven through its public methods.            *)
(***************************************************************************)
TokenTexts == {<<"k", "o", "t">>, <<".">>}

\* The parameters a caller may store: the defaults, and every lemma, pos and
\* tags of the kinds the pipelines build (pos None: OpenCorpora's convert_pos
\* of a tag without POS).
DTOs ==
    {MorphologicalTokenDTO(l, p, t) :
        l \in {<<>>, <<"k", "o", "t">>},
        p \in {"", None, "NOUN", "X", "PUNCT"},
        t \in {"", "Case=Nom"}}

InitToken ==
    /\ PipelineIdle
    /\ conv = IdleConverter
    /\ token \in {ConlluToken(t) : t \in TokenTexts}
    /\ rendered = NotRendered

SetMorphologicalParameters ==
    /\ \E parameters \in DTOs : token' = set_morphological_parameters(token, parameters)
    /\ UNCHANGED <<pipeline, storage, pc, art, result, ind, i, number_of_words,
                   tokens, conllu_sentences, error, taken, conv, rendered>>

SetPosition ==
    /\ \E position \in 1..MaxPosition : token' = set_position(token, position)
    /\ UNCHANGED <<pipeline, storage, pc, art, result, ind, i, number_of_words,
                   tokens, conllu_sentences, error, taken, conv, rendered>>

GetConlluText ==
    /\ \E include_morphological_tags \in BOOLEAN :
           rendered' = [self |-> token,
                        fields |-> get_conllu_text(token, include_morphological_tags)]
    /\ UNCHANGED <<pipeline, storage, pc, art, result, ind, i, number_of_words,
                   tokens, conllu_sentences, error, taken, conv, token>>

NextToken ==
    \/ SetMorphologicalParameters
    \/ SetPosition
    \/ GetConlluText

SpecToken == InitToken /\ [][NextToken]_vars

(***************************************************************************)
(* Claims about the tag converters (under SpecConv).                       *)
(***************************************************************************)
Range(f) == {f[x] : x \in DOMAIN f}

\* The category the claim gives to marker j of ms: the first one in the
\* fixed order that registers the marker and that no earlier marker got.
RECURSIVE ClaimedCategory(_, _)
ClaimedCategory(ms, j) ==
    LET free == {c \in 1..Len(CategoryOrder) :
                    /\ ms[j] \in DOMAIN MystemMapping[CategoryOrder[c]]
                    /\ \A h \in 1..(j - 1) : ClaimedCategory(ms, h) # CategoryOrder[c]}
    IN  IF free = {} THEN None
        ELSE CategoryOrder[CHOOSE c \in free : \A c2 \in free : c <= c2]

\* The items the claim expects for the markers ms, in alphabetical key order.
ClaimedItems(ms) ==
    LET owner(k) == {j \in 1..Len(ms) : ClaimedCategory(ms, j) = k}
        given == SelectSeq(Alphabetical, LAMBDA k : owner(k) # {})
    IN  [r \in 1..Len(given) |->
            <<given[r], MystemMapping[given[r]][ms[CHOOSE j \in owner(given[r]) : TRUE]]>>]

\* C7: MystemTagConverter.convert_morphological_tags gives each recognized
\* marker, in order of appearance, to the first category of case, number,
\* gender, animacy, tense that registers it and has no value yet: the
\* features are exactly these assignments, one value per category, and a
\* marker registered under an earlier and a later category goes to the
\* earlier one when that one is free.
C7_PriorityAssignment ==
    (conv.variant = "mystem" /\ conv.returned) =>
        conv.features = Ok(FormatFeatures(ClaimedItems(findall(CyrLower, conv.tags))))

\* C7 witness: a marker registered under Number and Gender appears twice;
\* the first goes to Number, the second, Number being taken, to Gender.
C7_Witness ==
    /\ conv.variant = "mystem"
    /\ conv.returned
    /\ conv.tags = <<"S", ",", "d", ",", "d">>
    /\ conv.features = Ok("Gender=Masc|Number=Sing")

\* The feature strings whose keys are in alphabetical order: for the
\* categories of rank r and above, each absent or present once with one of
\* the values the table has for it.
RECURSIVE OrderedItems(_, _)
OrderedItems(mapping, r) ==
    IF r > Len(Alphabetical) THEN {<<>>}
    ELSE LET rest == OrderedItems(mapping, r + 1)
             k == Alphabetical[r]
         IN  IF k \notin DOMAIN mapping THEN rest
             ELSE rest \cup {<<<<k, v>>>> \o s : v \in Range(mapping[k]), s \in rest}

OrderedFeatures(mapping) == {FormatFeatures(s) : s \in OrderedItems(mapping, 1)}

\* C8: for both converters the feature string returned by
\* convert_morphological_tags is its key=value pairs joined by "|" with the
\* keys in alphabetical order.
C8_AlphabeticalFeatures ==
    /\ (conv.variant = "mystem" /\ conv.returned) =>
           conv.features.val \in OrderedFeatures(MystemMapping)
    /\ (conv.variant = "opencorpora" /\ conv.returned /\ conv.features.exc = NoExc) =>
           conv.features.val \in OrderedFeatures(OpenCorporaMapping)

\* C8 witness: Number is assigned before Gender and still follows it in the
\* feature string.
C8_Witness ==
    /\ conv.variant = "mystem"
    /\ conv.returned
    /\ conv.tags = <<"S", ",", "d", ",", "m">>
    /\ conv.features = Ok("Gender=Fem|Number=Sing")

(***************************************************************************)
(* Claims about ConlluToken (under SpecToken).                             *)
(***************************************************************************)
\* C10: the part-of-speech field of a rendered token is never empty, and is
\* "X" whenever the token's part-of-speech is unset (the default of the
\* constructor, or None).
C10_PosFieldNeverEmpty ==
    rendered.fields # <<>> =>
        /\ rendered.fields[4] # ""
        /\ rendered.self._morphological_parameters.pos \in {"", None} =>
               rendered.fields[4] = "X"

(***************************************************************************)
(* Claims about _process and run() (under Spec and SpecCorpus).            *)
(***************************************************************************)
\* _process has been entered for article art.
InProcess == art > 0

\* The tokens of the words of the sentences _process has built (without the
\* terminal tokens), then those of the sentence it is building.
RECURSIVE WordTokensOf(_)
WordTokensOf(sentences) ==
    IF sentences = <<>> THEN <<>>
    ELSE LET n == Len(sentences)
             toks == sentences[n]._tokens
         IN  WordTokensOf(SubSeq(sentences, 1, n - 1)) \o SubSeq(toks, 1, Len(toks) - 1)

BuiltWordTokens ==
    WordTokensOf(conllu_sentences) \o (IF pc \in {"word", "raised"} THEN tokens ELSE <<>>)

RECURSIVE Sum(_)
Sum(ns) == IF ns = <<>> THEN 0 ELSE ns[1] + Sum(Tail(ns))

\* _process is about to return (line 312).
AtReturn == pc = "sentence" /\ ind = Len(storage[art].sentences)

\* C1: every entry taken as the analysis of a word is purely alphanumeric.
C1_TakenEntriesAlnum ==
    \A k \in 1..Len(taken) : isalnum(result[taken[k] + 1].text)

\* C2: the cursor starts at 0 when _process starts, never decreases between
\* words or sentences, and when _process finishes the number of entries it
\* took equals the number of words of all the sentences of the document.
C2_CursorMonotonic ==
    /\ [](InProcess /\ AtReturn => Len(taken) = Sum(storage[art].sentences))
    /\ [][/\ (pc = "run" /\ pc' = "sentence") => number_of_words' = 0
          /\ ~(pc = "run" /\ pc' = "sentence") => number_of_words' >= number_of_words]_vars

\* C2 witness: _process is about to return from two sentences of one word
\* each, having skipped an entry between the two it took.
C2_Witness ==
    /\ InProcess
    /\ AtReturn
    /\ storage[art].sentences = <<1, 1>>
    /\ taken = <<0, 2>>
    /\ number_of_words = 3

\* The claimed shape of the sentence built for the s-th sentence, of n words.
SentenceShape(sentence, s, n) ==
    /\ sentence._position = s - 1
    /\ Len(sentence._tokens) = n + 1
    /\ \A k \in 1..Len(sentence._tokens) : sentence._tokens[k]._position = k
    /\ sentence._tokens[Len(sentence._tokens)] =
           [_text |-> <<".">>, _position |-> n + 1,
            _morphological_parameters |-> [lemma |-> <<".">>, pos |-> "PUNCT", tags |-> ""]]

\* C3: in every sentence _process emits the token positions are 1..n+1 for
\* its n words, the last token is the terminal token (".", ".", PUNCT, no
\* features) at position n+1, and the sentence positions count from 0.
C3_SentencePositions ==
    /\ InProcess =>
           \A s \in 1..Len(conllu_sentences) :
               SentenceShape(conllu_sentences[s], s, storage[art].sentences[s])
    /\ \A a \in 1..Len(storage) : \A s \in 1..Len(storage[a].conllu_sentences) :
           SentenceShape(storage[a].conllu_sentences[s], s, storage[a].sentences[s])

\* C3 witness: an article stored with two sentences, the second of two words.
C3_Witness ==
    /\ Len(storage) = 1
    /\ Len(storage[1].conllu_sentences) = 2
    /\ storage[1].sentences = <<1, 2>>
    /\ Len(storage[1].conllu_sentences[2]._tokens) = 3

\* The cursor reaches the end of the stream while word i needs an entry:
\* at once, or after the skip of a non-alphanumeric entry.
Exhausting ==
    /\ pc = "word"
    /\ i <= NumWords
    /\ \/ number_of_words >= Len(result)
       \/ /\ ~isalnum(result[number_of_words + 1].text)
          /\ number_of_words + 1 >= Len(result)

\* run() was left by an exception raised with the cursor at the end of the
\* stream.
RaisedExhausted == pc = "raised" /\ number_of_words >= Len(result)

C5_OtherArticlesWritten ==
    pc = "raised" =>
        \A a \in (1..Len(storage)) \ {art} :
            /\ storage[a].files = WrittenFiles
            /\ Len(storage[a].conllu_sentences) = Len(storage[a].sentences)

\* The entry has at least one candidate analysis.
HasCandidate(e) == e.has_analysis /\ e.analysis # <<>>

\* C6: in the base pipeline a token built from an entry with a candidate
\* has the first candidate's lemma and the converted pos and features of its
\* raw tag; one built from an all-digit entry without candidates has pos NUM,
\* the entry's text as lemma and no features; any other has pos X, the
\* entry's text as lemma and no features.
C6_BaseClassification ==
    (pipeline = "base" /\ InProcess) =>
        \A k \in 1..Len(BuiltWordTokens) :
            LET e == result[taken[k] + 1]
                m == BuiltWordTokens[k]._morphological_parameters
            IN  /\ HasCandidate(e) =>
                       /\ m.lemma = e.analysis[1].lex
                       /\ m.pos = Mystem_convert_pos(e.analysis[1].gr).val
                       /\ m.tags = Mystem_convert_morphological_tags(e.analysis[1].gr)
                /\ (~HasCandidate(e) /\ isdigit(e.text)) =>
                       (m.lemma = e.text /\ m.pos = "NUM" /\ m.tags = "")
                /\ (~HasCandidate(e) /\ ~isdigit(e.text)) =>
                       (m.lemma = e.text /\ m.pos = "X" /\ m.tags = "")

\* C6 witness: the base pipeline built tokens from an entry with two
\* candidates, an all-digit entry and an entry with an empty analysis.
C6_Witness ==
    /\ pipeline = "base"
    /\ InProcess
    /\ result = <<EntryNoun, EntryDigits, EntryUnknown>>
    /\ taken = <<0, 1, 2>>
    /\ Len(BuiltWordTokens) = 3
    /\ BuiltWordTokens[1]._morphological_parameters =
           [lemma |-> <<"k", "o", "t">>, pos |-> "NOUN", tags |-> "Case=Nom|Gender=Fem|Number=Sing"]
    /\ BuiltWordTokens[2]._morphological_parameters.pos = "NUM"
    /\ BuiltWordTokens[3]._morphological_parameters.pos = "X"

\* C9: in the advanced pipeline a token built from an entry with a candidate
\* whose primary part-of-speech is NOUN has the lemma of the backup
\* analyzer's best candidate for the entry's text and the features the backup
\* converter gives its tag; with any other primary part-of-speech it has the
\* lemma, pos and features of the base pipeline.
C9_Escalation ==
    (pipeline = "advanced" /\ InProcess) =>
        \A k \in 1..Len(BuiltWordTokens) :
            LET e == result[taken[k] + 1]
                m == BuiltWordTokens[k]._morphological_parameters
            IN  HasCandidate(e) =>
                    IF Mystem_convert_pos(e.analysis[1].gr).val = "NOUN"
                    THEN /\ m.lemma = parse0(e.text).normal_form
                         /\ m.tags =
                                OpenCorpora_convert_morphological_tags(parse0(e.text).tag).val
                    ELSE m = BaseMorphology(e).val

\* C9 witness: the advanced pipeline built a token from a NOUN entry whose
\* backup lemma differs from the primary one, and a token from a VERB entry.
C9_Witness ==
    /\ pipeline = "advanced"
    /\ InProcess
    /\ result = <<EntryNoun, EntryVerb>>
    /\ Len(BuiltWordTokens) = 2
    /\ BuiltWordTokens[1]._morphological_parameters =
           [lemma |-> <<"k", "o">>, pos |-> "NOUN",
            tags |-> "Animacy=Anim|Case=Nom|Gender=Masc|Number=Sing"]
    /\ BuiltWordTokens[2]._morphological_parameters =
           [lemma |-> <<"e", "d">>, pos |-> "VERB", tags |-> "Case=Nom|Number=Plur"]

====
